---- MODULE Spec2Model ----
(***************************************************************************)
(* Transcoding orchestration and delivery cache of the video-streaming     *)
(* backend: VideoService.uploadVideoFile / deleteVideo,                    *)
(* VideoProcessingService.processVideo / checkAWSJobStatus,                *)
(* StreamingService.generateHLSManifest / generateQualityPlaylist /        *)
(* getOptimalQuality and CacheService.invalidateVideoCache, for one video. *)
(*                                                                         *)
(* One video row, its video_variants rows and its Redis keys are the       *)
(* state.  processVideo is an async function: every await is a point where *)
(* other requests run, so a run is a small process with a position; the    *)
(* short request handlers are single actions.                              *)
(***************************************************************************)
EXTENDS Integers, Sequences, FiniteSets, TLC

\* ------------------------------------------------------------------ bounds
\* How many rungs of the configured quality table are in use.
NumRungs == 3
\* Bandwidths tried are 0, 250, ..., 250 * MaxBandwidthSteps kbps.
MaxBandwidthSteps == 8
\* ProgressInSeconds of an unfinished output is 60, ..., 60 * MaxProgressSteps.
MaxProgressSteps == 3

\* ------------------------------------------------------- configuration
\* config.video.qualities (crf is only passed to the encoder)
QualityTable ==
  << [name |-> "240p",  bitrate |-> 400,  width |-> 426,  height |-> 240],
     [name |-> "360p",  bitrate |-> 800,  width |-> 640,  height |-> 360],
     [name |-> "480p",  bitrate |-> 1200, width |-> 854,  height |-> 480],
     [name |-> "720p",  bitrate |-> 2500, width |-> 1280, height |-> 720],
     [name |-> "1080p", bitrate |-> 5000, width |-> 1920, height |-> 1080] >>

Min(a, b) == IF a <= b THEN a ELSE b

\* VideoProcessingService.qualities
qualities == SubSeq(QualityTable, 1, Min(NumRungs, Len(QualityTable)))

QualityNames == { qualities[i].name : i \in 1..Len(qualities) }

\* The upload requests (uploadVideo -> uploadVideoFile -> processVideo) that
\* can be in flight for the video; a cloud job is named after the run that
\* submitted it.
Runs == {"r1", "r2"}

Bandwidths == { 250 * b : b \in 0..MaxBandwidthSteps }

NoJob == "none"

VARIABLES
  status,             \* videos.status
  processing_job_id,  \* videos.processing_job_id
  video_variants,     \* rows of video_variants for the video, in insertion order
  cacheProcessing,    \* Redis key video:processing:<id>
  cacheManifest,      \* Redis key manifest:<id>
  cachePlaylist,      \* qualities q whose key playlist:<id>:<q> is set
  pc,                 \* position of each processVideo run
  rung,               \* index of the rung the run's loop is at
  encoded,            \* rungs whose encode ended successfully in the run
  jobs,               \* status of each MediaConvert job
  cloud,              \* config.aws.accessKeyId && config.aws.secretAccessKey
  awsAccountId,       \* process.env.AWS_ACCOUNT_ID
  reader,             \* the getProcessingStatus request in flight
  response            \* what the latest request handler answered

dbVars == <<status, processing_job_id, video_variants>>
cacheVars == <<cacheProcessing, cacheManifest, cachePlaylist>>
runVars == <<pc, rung, encoded>>
configVars == <<cloud, awsAccountId>>
vars == <<status, processing_job_id, video_variants, cacheProcessing,
          cacheManifest, cachePlaylist, pc, rung, encoded, jobs, cloud,
          awsAccountId, reader, response>>

NoResponse == [op |-> "none"]

\* AWS_ACCOUNT_ID is not set in the environment
NoAccount == "unset"

\* no getProcessingStatus request is between two of its awaits
NoReader == [pc |-> "idle"]

\* ------------------------------------------------------------ Redis
\* redis.get of a key that is not set (or has expired) returns null
NoEntry == [present |-> FALSE]
\* redis.setex(key, ttl, value)
Entry(value, ttl) == [present |-> TRUE, value |-> value, ttl |-> ttl]

\* CacheService.CACHE_TTL.PROCESSING_STATUS
PROCESSING_STATUS == 300
\* StreamingService.generateHLSManifest: redis.setex(`manifest:...`, 1800, ..)
ManifestTTL == 1800
\* StreamingService.generateQualityPlaylist: redis.setex(cacheKey, 600, ..)
PlaylistTTL == 600

\* CacheService.cacheProcessingStatus(videoId, status)
cacheProcessingStatus(value) == Entry(value, PROCESSING_STATUS)

\* the status objects processVideo and checkAWSJobStatus cache
StatusValue(st, progress, jobId, error) ==
  [status |-> st, progress |-> progress, jobId |-> jobId, error |-> error]

\* ------------------------------------------------- video_variants table
\* the id of the video all requests are about
VideoId == "v1"

\* config.aws.cloudFrontDomain
CloudFrontDomain == "cdn.example.com"

\* hls_playlist_url of a row transcodeToQuality inserts
LocalPlaylistUrl(q) ==
  "/uploads/processed/" \o VideoId \o "/" \o q.name \o ".m3u8"

\* AWSMediaConvertService.getCloudFrontUrl(key)
getCloudFrontUrl(key) == "https://" \o CloudFrontDomain \o "/" \o key

\* hls_playlist_url of a row updateVideoVariantsFromAWS inserts
CloudPlaylistUrl(q) ==
  getCloudFrontUrl("videos/" \o VideoId \o "/outputs/" \o q.name \o ".m3u8")

\* the row transcodeToQuality / updateVideoVariantsFromAWS insert for a rung
VariantRow(q, hls_playlist_url) ==
  [quality |-> q.name, bitrate |-> q.bitrate,
   resolution_width |-> q.width, resolution_height |-> q.height,
   hls_playlist_url |-> hls_playlist_url]

HasQuality(rows, name) == \E i \in 1..Len(rows) : rows[i].quality = name

\* an insert into a table without the unique index: every row is accepted
InsertVariantAlways(rows, row) == [ok |-> TRUE, rows |-> Append(rows, row)]

\* db('video_variants').insert(row) under table.unique(['video_id','quality']):
\* a second row of the same quality is refused and the insert throws.
InsertVariant(rows, row) ==
  IF HasQuality(rows, row.quality)
    THEN [ok |-> FALSE, rows |-> rows]
    ELSE [ok |-> TRUE, rows |-> Append(rows, row)]

\* .orderBy('bitrate', 'desc'): insertion of one row into a sorted list
RECURSIVE InsertDesc(_, _)
InsertDesc(sorted, row) ==
  IF sorted = <<>> THEN <<row>>
  ELSE IF row.bitrate > Head(sorted).bitrate THEN <<row>> \o sorted
  ELSE <<Head(sorted)>> \o InsertDesc(Tail(sorted), row)

RECURSIVE OrderByBitrateDesc(_)
OrderByBitrateDesc(rows) ==
  IF rows = <<>> THEN <<>>
  ELSE InsertDesc(OrderByBitrateDesc(Tail(rows)), Head(rows))

\* a query without the orderBy clause: the rows come back as they were stored
getVideoVariantsUnordered(rows) == rows

\* StreamingService.getVideoVariants(videoId)
getVideoVariants(rows) == OrderByBitrateDesc(rows)

\* ------------------------------------------------------ manifest text
StreamInfLine(v) ==
  "#EXT-X-STREAM-INF:BANDWIDTH=" \o ToString(v.bitrate * 1000)
     \o ",RESOLUTION=" \o ToString(v.resolution_width) \o "x"
     \o ToString(v.resolution_height) \o "\n"

RECURSIVE ManifestBody(_)
ManifestBody(variants) ==
  IF variants = <<>> THEN ""
  ELSE StreamInfLine(Head(variants)) \o Head(variants).quality
         \o "/playlist.m3u8\n\n" \o ManifestBody(Tail(variants))

\* the master playlist StreamingService.generateHLSManifest builds on a miss
MasterManifest(rows) ==
  "#EXTM3U\n#EXT-X-VERSION:3\n\n" \o ManifestBody(getVideoVariants(rows))

\* ------------------------------------------------- optimal quality
\* the for loop of getOptimalQuality from position i on: variant.bitrate <=
\* userBandwidth * 0.8 is compared in tenths, which is exact for the integer
\* bitrates and bandwidths used here.
RECURSIVE OptimalLoop(_, _, _, _)
OptimalLoop(variants, i, userBandwidth, optimalQuality) ==
  IF i > Len(variants) THEN optimalQuality
  ELSE IF 10 * variants[i].bitrate <= 8 * userBandwidth
    THEN OptimalLoop(variants, i + 1, userBandwidth, variants[i].quality)
    ELSE optimalQuality

\* StreamingService.getOptimalQuality(videoId, userBandwidth)
getOptimalQuality(rows, userBandwidth) ==
  LET variants == getVideoVariants(rows)
  IN  OptimalLoop(variants, 1, userBandwidth,
                  IF variants = <<>> THEN "360p" ELSE variants[1].quality)

\* ------------------------------------------------------------- Init
\* VideoService.createVideo has inserted the row with status 'uploading';
\* nothing is transcoded or cached yet.  The AWS credentials and the account
\* id are read from the environment; the account id is read by the cloud
\* method only.
Init ==
  /\ status = "uploading"
  /\ processing_job_id = NoJob
  /\ video_variants = <<>>
  /\ cacheProcessing = NoEntry
  /\ cacheManifest = NoEntry
  /\ cachePlaylist = {}
  /\ pc = [r \in Runs |-> "idle"]
  /\ rung = [r \in Runs |-> 1]
  /\ encoded = [r \in Runs |-> {}]
  /\ jobs = [r \in Runs |-> "none"]
  /\ cloud \in BOOLEAN
  /\ awsAccountId \in IF cloud THEN {NoAccount, "210987654321"} ELSE {NoAccount}
  /\ reader = NoReader
  /\ response = NoResponse

\* updateVideoStatus(videoId, status)
updateVideoStatus(newStatus) == newStatus

\* CacheService.invalidateVideoCache deletes video:metadata, video:variants,
\* video:hls, video:processing, video:analytics and video:views; of the keys
\* kept here that is video:processing.  The keys manifest:<id> and
\* playlist:<id>:<q> of StreamingService are not in its list.
invalidateVideoCache(caches) == <<NoEntry, caches[2], caches[3]>>

\* An await that touches neither the row, the table nor Redis (ffprobe, the
\* thumbnail, the encoder, the S3 upload) is taken together with the next
\* write of the run; every write of the run is a step of its own.

\* a catch block that marks the video failed and rethrows without caching
\* the error
CatchAndThrowSilent(r, message) ==
  /\ status' = updateVideoStatus("failed")
  /\ pc' = [pc EXCEPT ![r] = "threw"]
  /\ UNCHANGED <<processing_job_id, video_variants, cacheVars, jobs>>

\* processVideo lines 46-50: an await inside the try block rejected; the
\* catch block marks the video failed, caches the message and rethrows
CatchAndThrow(r, message) ==
  /\ status' = updateVideoStatus("failed")
  /\ cacheProcessing' =
       cacheProcessingStatus(StatusValue("failed", 0, NoJob, message))
  /\ pc' = [pc EXCEPT ![r] = "threw"]
  /\ UNCHANGED <<processing_job_id, video_variants, cacheManifest,
                 cachePlaylist, jobs>>

\* ------------------------------------------------- VideoService
\* uploadVideoFile: the row is set to 'processing' and processVideo is
\* called, which sets 'processing' again and caches the first status
\* (video.service.ts 205-215, video-processing.service.ts 20-21)
UploadVideoFile(r) ==
  /\ pc[r] = "idle"
  /\ status' = updateVideoStatus("processing")
  /\ cacheProcessing' =
       cacheProcessingStatus(StatusValue("processing", 10, NoJob, "none"))
  /\ pc' = [pc EXCEPT ![r] = "probe"]
  /\ UNCHANGED <<processing_job_id, video_variants, cacheManifest,
                 cachePlaylist, rung, encoded, jobs, configVars, reader, response>>

\* deleteVideo: the files are unlinked and the row is soft-marked
DeleteVideo ==
  /\ status' = "deleted"
  /\ UNCHANGED <<processing_job_id, video_variants, cacheVars, runVars, jobs,
                 configVars, reader, response>>

\* ------------------------------------------- processVideo, step by step
\* a choice of the processing method with the test of the credentials
\* inverted
ProbeAndChooseInverted(r) ==
  /\ pc[r] = "probe"
  /\ \/ /\ pc' = [pc EXCEPT ![r] = IF cloud THEN "transcode" ELSE "submit"]
        /\ UNCHANGED <<dbVars, cacheVars, jobs>>
     \/ CatchAndThrow(r, "ffprobe failed")
     \/ /\ ~cloud
        /\ CatchAndThrow(r, "thumbnail failed")
  /\ UNCHANGED <<rung, encoded, configVars, reader, response>>

\* lines 24-36 and, for FFmpeg, lines 97-101: ffprobe, updateVideoMetadata,
\* the choice of the processing method, mkdir and the thumbnail
ProbeAndChoose(r) ==
  /\ pc[r] = "probe"
  /\ \/ /\ pc' = [pc EXCEPT ![r] = IF cloud THEN "submit" ELSE "transcode"]
        /\ UNCHANGED <<dbVars, cacheVars, jobs>>
     \/ CatchAndThrow(r, "ffprobe failed")
     \/ /\ ~cloud
        /\ CatchAndThrow(r, "thumbnail failed")
  /\ UNCHANGED <<rung, encoded, configVars, reader, response>>

\* where the loop of transcodeToMultipleQualities goes after rung i
AfterRung(i) == IF i >= Len(qualities) THEN "finish" ELSE "transcode"

\* transcodeToMultipleQualities with a loop that an encoder error ends: the
\* rungs after the failed one are not attempted
TranscodeToQualityBreak(r) ==
  /\ pc[r] = "transcode"
  /\ rung[r] <= Len(qualities)
  /\ \/ LET ins == InsertVariant(video_variants,
                              VariantRow(qualities[rung[r]],
                                         LocalPlaylistUrl(qualities[rung[r]])))
        IN  /\ video_variants' = ins.rows
            /\ encoded' = [encoded EXCEPT ![r] = @ \cup {qualities[rung[r]].name}]
            /\ pc' = [pc EXCEPT ![r] = AfterRung(rung[r])]
            /\ rung' = [rung EXCEPT ![r] = @ + 1]
     \/ /\ UNCHANGED <<video_variants, encoded, rung>>
        /\ pc' = [pc EXCEPT ![r] = "finish"]
  /\ UNCHANGED <<status, processing_job_id, cacheVars, jobs, configVars, reader, response>>

\* one iteration of the loop of transcodeToMultipleQualities: the encoder
\* either ends, and the row of the rung is inserted, or it reports an error;
\* a rejection (encoder error, missing output, refused insert) is caught and
\* the loop goes on with the next rung.
TranscodeToQuality(r) ==
  /\ pc[r] = "transcode"
  /\ rung[r] <= Len(qualities)
  /\ \/ LET ins == InsertVariant(video_variants,
                              VariantRow(qualities[rung[r]],
                                         LocalPlaylistUrl(qualities[rung[r]])))
        IN  /\ video_variants' = ins.rows
            /\ encoded' = [encoded EXCEPT ![r] = @ \cup {qualities[rung[r]].name}]
     \/ UNCHANGED <<video_variants, encoded>>
  /\ pc' = [pc EXCEPT ![r] = AfterRung(rung[r])]
  /\ rung' = [rung EXCEPT ![r] = @ + 1]
  /\ UNCHANGED <<status, processing_job_id, cacheVars, jobs, configVars, reader, response>>

\* AWSMediaConvertService.getAccountId(): the placeholder stands in for an
\* account id that is not configured
getAccountId ==
  IF awsAccountId = NoAccount THEN "123456789012" ELSE awsAccountId

\* the Role of the CreateJobCommand createTranscodingJob sends; the command
\* is sent whatever the account id is
Role == "arn:aws:iam::" \o getAccountId \o ":role/MediaConvertRole"

\* a submission that stores a job id on the row before the job is created,
\* so that a refused job leaves the id behind
SubmitJobStoresIdFirst(r) ==
  /\ pc[r] = "submit"
  /\ \/ /\ jobs' = [jobs EXCEPT ![r] = "SUBMITTED"]
        /\ processing_job_id' = r
        /\ pc' = [pc EXCEPT ![r] = "cloudThumbnail"]
        /\ UNCHANGED <<status, video_variants, cacheVars>>
     \/ CatchAndThrow(r, "Failed to upload file to S3")
     \/ /\ status' = updateVideoStatus("failed")
        /\ cacheProcessing' =
             cacheProcessingStatus(StatusValue("failed", 0, NoJob,
                                               "Failed to create transcoding job"))
        /\ processing_job_id' = r
        /\ pc' = [pc EXCEPT ![r] = "threw"]
        /\ UNCHANGED <<video_variants, cacheManifest, cachePlaylist, jobs>>
  /\ UNCHANGED <<rung, encoded, configVars, reader, response>>

\* processWithAWSMediaConvert lines 57-77: the source is uploaded to S3, one
\* job for all rungs is created and its id stored on the video row
SubmitJob(r) ==
  /\ pc[r] = "submit"
  /\ \/ /\ jobs' = [jobs EXCEPT ![r] = "SUBMITTED"]
        /\ processing_job_id' = r
        /\ pc' = [pc EXCEPT ![r] = "cloudThumbnail"]
        /\ UNCHANGED <<status, video_variants, cacheVars>>
     \/ CatchAndThrow(r, "Failed to upload file to S3")
     \/ CatchAndThrow(r, "Failed to create transcoding job")
  /\ UNCHANGED <<rung, encoded, configVars, reader, response>>

\* processWithAWSMediaConvert lines 79-90: the thumbnail, then the cached
\* progress of 30
CloudThumbnail(r) ==
  /\ pc[r] = "cloudThumbnail"
  /\ \/ /\ cacheProcessing' =
             cacheProcessingStatus(
               [status |-> "processing", progress |-> 30, jobId |-> r,
                error |-> "none",
                message |-> "Transcoding job created, processing in progress..."])
        /\ pc' = [pc EXCEPT ![r] = "finish"]
        /\ UNCHANGED <<dbVars, cacheManifest, cachePlaylist, jobs>>
     \/ CatchAndThrow(r, "thumbnail failed")
  /\ UNCHANGED <<rung, encoded, configVars, reader, response>>

\* a processVideo that leaves the status alone when the cloud method has
\* returned, so that only checkAWSJobStatus ends the processing
MarkReadyLocalOnly(r) ==
  /\ pc[r] = "finish"
  /\ \/ /\ ~cloud
        /\ LET after == invalidateVideoCache(
                          <<cacheProcessingStatus(
                              StatusValue("ready", 100, NoJob, "none")),
                            cacheManifest, cachePlaylist>>)
           IN  /\ status' = updateVideoStatus("ready")
               /\ cacheProcessing' = after[1]
               /\ cacheManifest' = after[2]
               /\ cachePlaylist' = after[3]
               /\ pc' = [pc EXCEPT ![r] = "returned"]
               /\ UNCHANGED <<processing_job_id, video_variants, jobs>>
     \/ /\ cloud
        /\ pc' = [pc EXCEPT ![r] = "returned"]
        /\ UNCHANGED <<dbVars, cacheVars, jobs>>
     \/ /\ ~cloud
        /\ CatchAndThrow(r, "publishing failed")
  /\ UNCHANGED <<rung, encoded, configVars, reader, response>>

\* lines 38-43 after either method returned: status 'ready', the cached
\* status and the invalidation.  Under FFmpeg, generateHLSPlaylists and the
\* publishing to S3 (lines 106-120) come first and may reject.
MarkReady(r) ==
  /\ pc[r] = "finish"
  /\ \/ LET after == invalidateVideoCache(
                       <<cacheProcessingStatus(
                           StatusValue("ready", 100, NoJob, "none")),
                         cacheManifest, cachePlaylist>>)
        IN  /\ status' = updateVideoStatus("ready")
            /\ cacheProcessing' = after[1]
            /\ cacheManifest' = after[2]
            /\ cachePlaylist' = after[3]
            /\ pc' = [pc EXCEPT ![r] = "returned"]
            /\ UNCHANGED <<processing_job_id, video_variants, jobs>>
     \/ /\ ~cloud
        /\ CatchAndThrow(r, "publishing failed")
  /\ UNCHANGED <<rung, encoded, configVars, reader, response>>

\* ---------------------------------------------- AWS MediaConvert
\* the service moves a submitted job on by itself
JobAdvance(j) ==
  /\ \/ /\ jobs[j] = "SUBMITTED"
        /\ jobs' = [jobs EXCEPT ![j] = "PROGRESSING"]
     \/ /\ jobs[j] = "PROGRESSING"
        /\ jobs' = [jobs EXCEPT ![j] = "COMPLETE"]
     \/ /\ jobs[j] \in {"SUBMITTED", "PROGRESSING"}
        /\ jobs' = [jobs EXCEPT ![j] = "ERROR"]
  /\ UNCHANGED <<dbVars, cacheVars, runVars, configVars, reader, response>>

\* an output file path ends in <name modifier>.<extension>; buildJobSettings
\* gives the output of a rung the modifier _<quality.name> and extension m3u8
OutputPath(q) == [modifier |-> q.name, extension |-> "m3u8"]

\* job.OutputGroupDetails[0].OutputDetails as the service reports it: one
\* entry per declared output, which carries its file path once the job is
\* complete; a job that has not started has no details
OutputDetails(jobStatus) ==
  IF jobStatus \in {"PROGRESSING", "COMPLETE"}
    THEN [i \in 1..Len(qualities) |->
            [OutputFilePaths |-> IF jobStatus = "COMPLETE"
                                   THEN <<OutputPath(qualities[i])>>
                                   ELSE <<>>]]
    ELSE <<>>

\* output.ProgressInSeconds || 0
ProgressInSecondsOr0(output) ==
  IF "ProgressInSeconds" \in DOMAIN output THEN output.ProgressInSeconds ELSE 0

RECURSIVE TotalProgress(_)
TotalProgress(outputs) ==
  IF outputs = <<>> THEN 0
  ELSE (IF Head(outputs).OutputFilePaths # <<>>
          THEN 100
          ELSE ProgressInSecondsOr0(Head(outputs)))
         + TotalProgress(Tail(outputs))

\* AWSMediaConvertService.calculateJobProgress; Math.round rounds half up
calculateJobProgress(outputs) ==
  IF Len(outputs) > 0
    THEN (2 * TotalProgress(outputs) + Len(outputs)) \div (2 * Len(outputs))
    ELSE 0

\* AWSMediaConvertService.getJobStatus(jobId), when the service answers
getJobStatus(jobId) ==
  [jobId |-> jobId,
   status |-> jobs[jobId],
   progress |-> calculateJobProgress(OutputDetails(jobs[jobId])),
   errorMessage |-> IF jobs[jobId] = "ERROR" THEN "job failed" ELSE "none",
   outputGroupDetails |-> OutputDetails(jobs[jobId])]

NoQuality == [name |-> "none"]

\* extractQualityFromPath: /(\d+p)\.m3u8$/ and the lookup in this.qualities
extractQualityFromPath(outputPath) ==
  IF outputPath.extension = "m3u8"
       /\ \E i \in 1..Len(qualities) : qualities[i].name = outputPath.modifier
    THEN qualities[CHOOSE i \in 1..Len(qualities) :
                     qualities[i].name = outputPath.modifier]
    ELSE NoQuality

\* updateVideoVariantsFromAWS: the rows are inserted one after the other and
\* the first refused insert throws, leaving the earlier rows in the table
RECURSIVE updateVideoVariantsFromAWS(_, _)
updateVideoVariantsFromAWS(rows, outputs) ==
  IF outputs = <<>> THEN [ok |-> TRUE, rows |-> rows]
  ELSE IF Head(outputs).OutputFilePaths = <<>>
    THEN updateVideoVariantsFromAWS(rows, Tail(outputs))
  ELSE LET quality == extractQualityFromPath(Head(outputs).OutputFilePaths[1])
       IN  IF quality = NoQuality
             THEN updateVideoVariantsFromAWS(rows, Tail(outputs))
             ELSE LET ins == InsertVariant(rows, VariantRow(quality,
                                                    CloudPlaylistUrl(quality)))
                  IN  IF ins.ok
                        THEN updateVideoVariantsFromAWS(ins.rows, Tail(outputs))
                        ELSE ins

\* a checkAWSJobStatus that also writes the status 'processing' on the row
\* while the job is not terminal
AfterJobStatusMarking(st, rows, caches, jobStatus) ==
  LET written == <<cacheProcessingStatus(
                     StatusValue(jobStatus.status, jobStatus.progress,
                                 jobStatus.jobId, jobStatus.errorMessage)),
                   caches[2], caches[3]>>
      ins == updateVideoVariantsFromAWS(rows, jobStatus.outputGroupDetails)
  IN  IF jobStatus.status = "COMPLETE"
        THEN IF ins.ok
               THEN [status |-> updateVideoStatus("ready"), rows |-> ins.rows,
                     caches |-> invalidateVideoCache(written), threw |-> FALSE]
               ELSE [status |-> st, rows |-> ins.rows, caches |-> written,
                     threw |-> TRUE]
      ELSE IF jobStatus.status = "ERROR"
        THEN [status |-> updateVideoStatus("failed"), rows |-> rows,
              caches |-> written, threw |-> FALSE]
      ELSE [status |-> updateVideoStatus("processing"), rows |-> rows,
            caches |-> written, threw |-> FALSE]

\* checkAWSJobStatus from line 374 on, for the job status the service gave:
\* the state it leaves behind and whether it threw
AfterJobStatus(st, rows, caches, jobStatus) ==
  LET written == <<cacheProcessingStatus(
                     StatusValue(jobStatus.status, jobStatus.progress,
                                 jobStatus.jobId, jobStatus.errorMessage)),
                   caches[2], caches[3]>>
      ins == updateVideoVariantsFromAWS(rows, jobStatus.outputGroupDetails)
  IN  IF jobStatus.status = "COMPLETE"
        THEN IF ins.ok
               THEN [status |-> updateVideoStatus("ready"), rows |-> ins.rows,
                     caches |-> invalidateVideoCache(written), threw |-> FALSE]
               ELSE [status |-> st, rows |-> ins.rows, caches |-> written,
                     threw |-> TRUE]
      ELSE IF jobStatus.status = "ERROR"
        THEN [status |-> updateVideoStatus("failed"), rows |-> rows,
              caches |-> written, threw |-> FALSE]
      ELSE [status |-> st, rows |-> rows, caches |-> written, threw |-> FALSE]

\* a checkAWSJobStatus that marks the video failed when the status query
\* fails
CheckAWSJobStatusMarksFailed ==
  \/ /\ processing_job_id = NoJob
     /\ response' = [op |-> "checkAWSJobStatus", ok |-> FALSE, jobId |-> NoJob,
                     body |-> "No processing job found for this video"]
     /\ UNCHANGED <<dbVars, cacheVars, runVars, jobs, configVars, reader>>
  \/ /\ processing_job_id # NoJob
     /\ response' = [op |-> "checkAWSJobStatus", ok |-> FALSE,
                     jobId |-> processing_job_id,
                     body |-> "Failed to get job status"]
     /\ status' = updateVideoStatus("failed")
     /\ UNCHANGED <<processing_job_id, video_variants, cacheVars, runVars,
                    jobs, configVars, reader>>
  \/ /\ processing_job_id # NoJob
     /\ LET jobStatus == getJobStatus(processing_job_id)
            after == AfterJobStatus(status, video_variants,
                        <<cacheProcessing, cacheManifest, cachePlaylist>>,
                        jobStatus)
        IN  /\ status' = after.status
            /\ video_variants' = after.rows
            /\ cacheProcessing' = after.caches[1]
            /\ cacheManifest' = after.caches[2]
            /\ cachePlaylist' = after.caches[3]
            /\ response' = [op |-> "checkAWSJobStatus", ok |-> ~after.threw,
                            jobId |-> processing_job_id,
                            body |-> jobStatus.status]
     /\ UNCHANGED <<processing_job_id, runVars, jobs, configVars, reader>>

\* VideoProcessingService.checkAWSJobStatus(videoId)
CheckAWSJobStatus ==
  \/ /\ processing_job_id = NoJob
     /\ response' = [op |-> "checkAWSJobStatus", ok |-> FALSE, jobId |-> NoJob,
                     body |-> "No processing job found for this video"]
     /\ UNCHANGED <<dbVars, cacheVars, runVars, jobs, configVars, reader>>
  \/ /\ processing_job_id # NoJob
     /\ response' = [op |-> "checkAWSJobStatus", ok |-> FALSE,
                     jobId |-> processing_job_id,
                     body |-> "Failed to get job status"]
     /\ UNCHANGED <<dbVars, cacheVars, runVars, jobs, configVars, reader>>
  \/ /\ processing_job_id # NoJob
     /\ LET jobStatus == getJobStatus(processing_job_id)
            after == AfterJobStatus(status, video_variants,
                        <<cacheProcessing, cacheManifest, cachePlaylist>>,
                        jobStatus)
        IN  /\ status' = after.status
            /\ video_variants' = after.rows
            /\ cacheProcessing' = after.caches[1]
            /\ cacheManifest' = after.caches[2]
            /\ cachePlaylist' = after.caches[3]
            /\ response' = [op |-> "checkAWSJobStatus", ok |-> ~after.threw,
                            jobId |-> processing_job_id,
                            body |-> jobStatus.status]
     /\ UNCHANGED <<processing_job_id, runVars, jobs, configVars, reader>>

\* ------------------------------------------------ StreamingService
\* a generateHLSManifest without the test of variants.length: an empty table
\* gives a manifest that is only the header
GenerateHLSManifestNoCheck ==
  /\ IF cacheManifest.present
       THEN /\ response' = [op |-> "generateHLSManifest", ok |-> TRUE,
                            body |-> cacheManifest.value]
            /\ UNCHANGED cacheManifest
     ELSE /\ cacheManifest' = Entry(MasterManifest(video_variants), ManifestTTL)
          /\ response' = [op |-> "generateHLSManifest", ok |-> TRUE,
                          body |-> MasterManifest(video_variants)]
  /\ UNCHANGED <<dbVars, cacheProcessing, cachePlaylist, runVars, jobs, configVars, reader>>

\* generateHLSManifest(videoId): cache first, else built from the rows and
\* written back
GenerateHLSManifest ==
  /\ IF cacheManifest.present
       THEN /\ response' = [op |-> "generateHLSManifest", ok |-> TRUE,
                            body |-> cacheManifest.value]
            /\ UNCHANGED cacheManifest
     ELSE IF Len(getVideoVariants(video_variants)) = 0
       THEN /\ response' = [op |-> "generateHLSManifest", ok |-> FALSE,
                            body |-> "No video variants found"]
            /\ UNCHANGED cacheManifest
     ELSE /\ cacheManifest' = Entry(MasterManifest(video_variants), ManifestTTL)
          /\ response' = [op |-> "generateHLSManifest", ok |-> TRUE,
                          body |-> MasterManifest(video_variants)]
  /\ UNCHANGED <<dbVars, cacheProcessing, cachePlaylist, runVars, jobs, configVars, reader>>

\* a generateQualityPlaylist that builds the playlist without looking the
\* row up
GenerateQualityPlaylistNoLookup(quality) ==
  /\ IF quality \in cachePlaylist
       THEN /\ response' = [op |-> "generateQualityPlaylist", ok |-> TRUE,
                            body |-> quality]
            /\ UNCHANGED cachePlaylist
     ELSE /\ cachePlaylist' = cachePlaylist \cup {quality}
          /\ response' = [op |-> "generateQualityPlaylist", ok |-> TRUE,
                          body |-> quality]
  /\ UNCHANGED <<dbVars, cacheProcessing, cacheManifest, runVars, jobs,
                 configVars, reader>>

\* generateQualityPlaylist(videoId, quality); the playlist text is fixed by
\* the quality label, so the key is recorded by that label
GenerateQualityPlaylist(quality) ==
  /\ IF quality \in cachePlaylist
       THEN /\ response' = [op |-> "generateQualityPlaylist", ok |-> TRUE,
                            body |-> quality]
            /\ UNCHANGED cachePlaylist
     ELSE IF ~HasQuality(video_variants, quality)
       THEN /\ response' = [op |-> "generateQualityPlaylist", ok |-> FALSE,
                            body |-> "Quality not found"]
            /\ UNCHANGED cachePlaylist
     ELSE /\ cachePlaylist' = cachePlaylist \cup {quality}
          /\ response' = [op |-> "generateQualityPlaylist", ok |-> TRUE,
                          body |-> quality]
  /\ UNCHANGED <<dbVars, cacheProcessing, cacheManifest, runVars, jobs, configVars, reader>>

\* VideoService.generateHLSManifest(videoId): the manifest object, one entry
\* per row in the order of getVideoVariants; hlsPlaylistUrl || `/api/stream/..`
\* takes the stored url unless it is empty
generateHLSManifest(rows) ==
  LET variants == getVideoVariants(rows)
  IN  [i \in 1..Len(variants) |->
         [bandwidth |-> variants[i].bitrate * 1000,
          resolution |-> ToString(variants[i].resolution_width) \o "x"
                           \o ToString(variants[i].resolution_height),
          playlistUrl |->
            IF variants[i].hls_playlist_url # ""
              THEN variants[i].hls_playlist_url
              ELSE "/api/stream/" \o VideoId \o "/" \o variants[i].quality
                     \o "/playlist.m3u8"]]

RECURSIVE M3U8Variants(_)
M3U8Variants(variants) ==
  IF variants = <<>> THEN ""
  ELSE "#EXT-X-STREAM-INF:BANDWIDTH=" \o ToString(Head(variants).bandwidth)
         \o ",RESOLUTION=" \o Head(variants).resolution \o "\n"
         \o Head(variants).playlistUrl \o "\n\n"
         \o M3U8Variants(Tail(variants))

\* StreamingController.generateM3U8Content(manifest)
generateM3U8Content(manifest) ==
  "#EXTM3U\n" \o "#EXT-X-VERSION:3\n\n" \o M3U8Variants(manifest)

\* StreamingController.getHLSManifest of the controller built on
\* VideoService: the video must be ready, the manifest is not cached
GetHLSManifest ==
  /\ IF status # "ready"
       THEN response' = [op |-> "getHLSManifest", ok |-> FALSE,
                         body |-> "Video is not ready for streaming"]
     ELSE IF Len(getVideoVariants(video_variants)) = 0
       THEN response' = [op |-> "getHLSManifest", ok |-> FALSE,
                         body |-> "No video variants found"]
     ELSE response' = [op |-> "getHLSManifest", ok |-> TRUE,
                       body |-> generateM3U8Content(
                                  generateHLSManifest(video_variants))]
  /\ UNCHANGED <<dbVars, cacheVars, runVars, jobs, configVars, reader>>

\* the handler of GET /:videoId/optimal-quality?bandwidth=...: a bandwidth
\* that is missing or 0 is taken as 1000 (parseInt(...) || 1000)
GetOptimalQuality(bandwidth) ==
  LET userBandwidth == IF bandwidth = 0 THEN 1000 ELSE bandwidth
  IN  /\ response' = [op |-> "getOptimalQuality", bandwidth |-> userBandwidth,
                      body |-> getOptimalQuality(video_variants, userBandwidth)]
      /\ UNCHANGED <<dbVars, cacheVars, runVars, jobs, configVars, reader>>

\* ------------------------------------------- processing status reads
\* VideoService.calculateProcessingProgress(status, variantCount)
calculateProcessingProgress(st, variantCount) ==
  CASE st = "uploading" -> 10
    [] st = "processing" -> Min(10 + variantCount * 15, 90)
    [] st = "ready" -> 100
    [] st = "failed" -> 0
    [] OTHER -> 0

\* VideoService.getVideoProcessingStatus(videoId), from the status and the
\* rows it has read
getVideoProcessingStatus(st, variants) ==
  [videoId |-> VideoId,
   status |-> st,
   progress |-> calculateProcessingProgress(st, Len(variants)),
   error |-> IF st = "failed" THEN "Processing failed" ELSE "none",
   variants |-> variants]

\* StreamingController.getProcessingStatus, await by await: the cached
\* status is answered as it is; on a miss the row is read, then the rows of
\* video_variants, then the computed status is cached and answered
GetProcessingStatus ==
  /\ \/ /\ reader.pc = "idle"
        /\ cacheProcessing.present
        /\ response' = [op |-> "getProcessingStatus", ok |-> TRUE,
                        body |-> cacheProcessing.value]
        /\ UNCHANGED <<reader, cacheProcessing>>
     \/ /\ reader.pc = "idle"
        /\ ~cacheProcessing.present
        /\ reader' = [pc |-> "readVideo"]
        /\ UNCHANGED <<response, cacheProcessing>>
     \/ /\ reader.pc = "readVideo"
        /\ reader' = [pc |-> "readVariants", status |-> status]
        /\ UNCHANGED <<response, cacheProcessing>>
     \/ /\ reader.pc = "readVariants"
        /\ reader' = [pc |-> "cache",
                      body |-> getVideoProcessingStatus(
                                 reader.status, getVideoVariants(video_variants))]
        /\ UNCHANGED <<response, cacheProcessing>>
     \/ /\ reader.pc = "cache"
        /\ cacheProcessing' = cacheProcessingStatus(reader.body)
        /\ response' = [op |-> "getProcessingStatus", ok |-> TRUE,
                        body |-> reader.body]
        /\ reader' = NoReader
  /\ UNCHANGED <<dbVars, cacheManifest, cachePlaylist, runVars, jobs,
                 configVars>>

\* ------------------------------------------------------------ Redis TTL
\* a key set with setex disappears when its time to live has passed
Expire ==
  /\ \/ /\ cacheProcessing.present
        /\ cacheProcessing' = NoEntry
        /\ UNCHANGED <<cacheManifest, cachePlaylist>>
     \/ /\ cacheManifest.present
        /\ cacheManifest' = NoEntry
        /\ UNCHANGED <<cacheProcessing, cachePlaylist>>
     \/ \E q \in cachePlaylist :
          /\ cachePlaylist' = cachePlaylist \ {q}
          /\ UNCHANGED <<cacheProcessing, cacheManifest>>
  /\ UNCHANGED <<dbVars, runVars, jobs, configVars, reader, response>>

\* ------------------------------------------------------ specifications
ProcessVideoStep(r) ==
  \/ ProbeAndChoose(r)
  \/ TranscodeToQuality(r)
  \/ SubmitJob(r)
  \/ CloudThumbnail(r)
  \/ MarkReady(r)

Next ==
  \/ \E r \in Runs : UploadVideoFile(r)
  \/ \E r \in Runs : ProcessVideoStep(r)
  \/ DeleteVideo
  \/ \E j \in Runs : JobAdvance(j)
  \/ CheckAWSJobStatus
  \/ GenerateHLSManifest
  \/ Expire

Spec == Init /\ [][Next]_vars

\* The streaming reads over a persisted table: the server has been restarted
\* (no run is in flight, Redis is empty) and the video holds any set of
\* rungs, stored in any order, all inserted by the cloud method or all by
\* the FFmpeg method.
RowsOver(names, fromCloud) ==
  { rows \in [1..Cardinality(names) ->
               { VariantRow(qualities[i],
                            IF fromCloud THEN CloudPlaylistUrl(qualities[i])
                                         ELSE LocalPlaylistUrl(qualities[i])) :
                   i \in 1..Len(qualities) }] :
      { rows[i].quality : i \in 1..Cardinality(names) } = names }

InitStreaming ==
  /\ cloud \in BOOLEAN
  /\ awsAccountId = NoAccount
  /\ reader = NoReader
  /\ status = "ready"
  /\ processing_job_id = NoJob
  /\ \E names \in SUBSET QualityNames :
       video_variants \in RowsOver(names, cloud)
  /\ cacheProcessing = NoEntry
  /\ cacheManifest = NoEntry
  /\ cachePlaylist = {}
  /\ pc = [r \in Runs |-> "idle"]
  /\ rung = [r \in Runs |-> 1]
  /\ encoded = [r \in Runs |-> {}]
  /\ jobs = [r \in Runs |-> "none"]
  /\ response = NoResponse

\* the quality labels the streaming routes accept
RouteQualities == { QualityTable[i].name : i \in 1..Len(QualityTable) }

NextStreaming ==
  \/ \E b \in Bandwidths : GetOptimalQuality(b)
  \/ GenerateHLSManifest
  \/ GetHLSManifest
  \/ \E q \in RouteQualities : GenerateQualityPlaylist(q)
  \/ Expire

SpecStreaming == InitStreaming /\ [][NextStreaming]_vars

\* One upload of the video with the status requests of its clients: the
\* read-through of the processing status against a single run and the
\* polls of its job.
NextStatus ==
  \/ UploadVideoFile("r1")
  \/ ProcessVideoStep("r1")
  \/ DeleteVideo
  \/ JobAdvance("r1")
  \/ CheckAWSJobStatus
  \/ GetProcessingStatus
  \/ Expire

SpecStatus == Init /\ [][NextStatus]_vars

\* ffprobe, the encoder, S3 and the MediaConvert API answer every call in
\* the end, so a run that has a step to take takes it; nothing makes a
\* client upload, poll, read or delete.
SpecFair ==
  Init /\ [][NextStatus]_vars /\ WF_vars(ProcessVideoStep("r1"))

\* The progress estimate over every job the service can describe: each of
\* the declared outputs, one per rung, is finished (it has its file path),
\* or unfinished with or without a ProgressInSeconds.
OutputStates ==
  {[OutputFilePaths |-> <<OutputPath(qualities[1])>>],
   [OutputFilePaths |-> <<>>]}
    \cup {[OutputFilePaths |-> <<>>, ProgressInSeconds |-> 60 * s] :
            s \in 1..MaxProgressSteps}

JobOutputs == {<<>>} \cup [1..Len(qualities) -> OutputStates]

\* getJobStatus on a job with these output details: the progress it reports
CalculateJobProgress(outputs) ==
  /\ response' = [op |-> "calculateJobProgress", outputs |-> outputs,
                  body |-> calculateJobProgress(outputs)]
  /\ UNCHANGED <<dbVars, cacheVars, runVars, jobs, configVars, reader>>

NextProgress == \E outputs \in JobOutputs : CalculateJobProgress(outputs)

SpecProgress == Init /\ [][NextProgress]_vars

\* ------------------------------------------------------------ claims
Finished == {"returned", "threw"}

\* r is the only run the video ever had, under the FFmpeg method
SoleLocalRun(r) == ~cloud /\ \A o \in Runs \ {r} : pc[o] = "idle"

RowQualities == { video_variants[i].quality : i \in 1..Len(video_variants) }

\* C1: under the local strategy, when the only run of a video returns after
\* at least one rung encoded successfully, every rung has been attempted,
\* the table holds exactly one row per successfully encoded rung and none
\* for a failed rung, and the status is ready (until the video is deleted).
C1_LocalRunKeepsSuccessfulRungs ==
  \A r \in Runs :
    (SoleLocalRun(r) /\ pc[r] = "returned" /\ encoded[r] # {}) =>
      /\ rung[r] = Len(qualities) + 1
      /\ RowQualities = encoded[r]
      /\ Len(video_variants) = Cardinality(encoded[r])
      /\ status \in {"ready", "deleted"}

\* a run that returned with some rungs encoded and some failed
C1_Witness ==
  \E r \in Runs :
    /\ SoleLocalRun(r) /\ pc[r] = "returned" /\ status = "ready"
    /\ encoded[r] # {} /\ encoded[r] # QualityNames

\* C2: under the local strategy, when every rung of the only run of a video
\* failed to encode, the run ends with status failed and no row exists.
C2_AllRungsFailedEndsFailed ==
  \A r \in Runs :
    (SoleLocalRun(r) /\ pc[r] \in Finished /\ rung[r] = Len(qualities) + 1
       /\ encoded[r] = {} /\ status # "deleted") =>
      (status = "failed" /\ video_variants = <<>>)

Terminal == {"COMPLETE", "ERROR"}

\* C3: once the job of the video is complete or in error, calling
\* checkAWSJobStatus twice leaves the row, the table and every cache entry
\* as calling it once does.
C3_PollIdempotentAfterTerminal ==
  (processing_job_id # NoJob /\ jobs[processing_job_id] \in Terminal) =>
    LET jobStatus == getJobStatus(processing_job_id)
        once == AfterJobStatus(status, video_variants,
                  <<cacheProcessing, cacheManifest, cachePlaylist>>, jobStatus)
        twice == AfterJobStatus(once.status, once.rows, once.caches, jobStatus)
    IN  /\ twice.status = once.status
        /\ twice.rows = once.rows
        /\ twice.caches = once.caches

\* a cache entry is absent or equal to what is computed from the row and
\* the table now
CacheCoherent ==
  /\ cacheProcessing.present => cacheProcessing.value.status = status
  /\ cacheManifest.present =>
       /\ video_variants # <<>>
       /\ cacheManifest.value = MasterManifest(video_variants)
  /\ \A q \in cachePlaylist : HasQuality(video_variants, q)

\* C4: when a run of processVideo completes (returns or throws) and no other
\* run is in progress, every cache entry of the video is absent or equal to
\* the freshly computed value.
C4_CacheCoherentOnCompletion ==
  [][\A r \in Runs :
       (/\ pc[r] \notin Finished
        /\ pc'[r] \in Finished
        /\ \A o \in Runs : pc'[o] \in Finished \cup {"idle"})
         => CacheCoherent']_vars

AllowedTransitions ==
  { <<"uploading", "processing">>, <<"processing", "ready">>,
    <<"processing", "failed">>, <<"ready", "deleted">>,
    <<"failed", "deleted">> }

\* C5: every change of the status is one of the allowed transitions, or is
\* a fresh upload taking a ready or failed video back to processing.
C5_StatusTransitions ==
  [][status' # status =>
       \/ <<status, status'>> \in AllowedTransitions
       \/ /\ status \in {"ready", "failed"}
          /\ status' = "processing"
          /\ \E r \in Runs : UploadVideoFile(r)]_vars

\* C6: once the video is deleted, no step of a run in progress and no call
\* of checkAWSJobStatus changes the status or inserts a row.
C6_DeletedRejectsLateMutations ==
  [][(status = "deleted" /\ ~(\E r \in Runs : UploadVideoFile(r)))
       => (status' = "deleted" /\ video_variants' = video_variants)]_vars

\* C7: the status is ready only if a row exists, and a video whose only run
\* has finished with at least one row is ready (until it is deleted).
C7_ReadyIffRenditions ==
  /\ status = "ready" => Len(video_variants) >= 1
  /\ \A r \in Runs :
       ((\A o \in Runs \ {r} : pc[o] = "idle") /\ pc[r] \in Finished
          /\ Len(video_variants) >= 1 /\ status # "deleted")
         => status = "ready"

\* C8: under the cloud strategy the status is ready only once the job of
\* the video is complete; a run that has submitted the job and returned
\* leaves the status processing.
C8_CloudReadyOnlyAfterComplete ==
  (cloud /\ status = "ready") =>
    (processing_job_id # NoJob /\ jobs[processing_job_id] = "COMPLETE")

\* config.video.qualities[...].bitrate of a quality label
BitrateOf(label) ==
  QualityTable[CHOOSE i \in 1..Len(QualityTable) :
                 QualityTable[i].name = label].bitrate

\* C9: of two successive answers of getOptimalQuality for the same table,
\* the one for the larger bandwidth does not name a lower bitrate.
C9_OptimalQualityMonotonic ==
  [][(/\ response.op = "getOptimalQuality"
      /\ response'.op = "getOptimalQuality"
      /\ response.bandwidth <= response'.bandwidth)
       => BitrateOf(response.body) <= BitrateOf(response'.body)]_vars

\* the rows whose bitrate is at most 80% of the bandwidth
Fitting(userBandwidth) ==
  { i \in 1..Len(video_variants) :
      10 * video_variants[i].bitrate <= 8 * userBandwidth }

\* C10: when some row fits within 80% of the bandwidth, getOptimalQuality
\* answers the label of the fitting row of the highest bitrate.
C10_OptimalQualityHighestFitting ==
  (response.op = "getOptimalQuality" /\ Fitting(response.bandwidth) # {}) =>
    \E i \in Fitting(response.bandwidth) :
      /\ response.body = video_variants[i].quality
      /\ \A k \in Fitting(response.bandwidth) :
           video_variants[k].bitrate <= video_variants[i].bitrate

\* the indexes of the rows of the lowest bitrate
LowestRows ==
  { i \in 1..Len(video_variants) :
      \A k \in 1..Len(video_variants) :
        video_variants[i].bitrate <= video_variants[k].bitrate }

\* C11: when the table is not empty and no row fits within 80% of the
\* bandwidth, getOptimalQuality answers the label of the row of the lowest
\* bitrate.
C11_DefaultsToLowestWhenNoneFits ==
  (/\ response.op = "getOptimalQuality"
   /\ video_variants # <<>>
   /\ Fitting(response.bandwidth) = {}) =>
    \E i \in LowestRows : response.body = video_variants[i].quality

\* C12: for a video without rows generateHLSManifest throws 'No video
\* variants found' and getOptimalQuality answers, for every bandwidth, a
\* quality label of the routes.
C12_EmptySetNotFoundAndDefault ==
  video_variants = <<>> =>
    /\ response.op = "generateHLSManifest" =>
         (~response.ok /\ response.body = "No video variants found")
    /\ response.op = "getOptimalQuality" => response.body \in RouteQualities
    /\ \A b \in Bandwidths :
         getOptimalQuality(video_variants, b) \in RouteQualities

\* the manifest was asked for a video without rows and refused
C12_Witness ==
  /\ video_variants = <<>>
  /\ response.op = "generateHLSManifest"
  /\ ~response.ok

NonIncreasing(variants) ==
  \A i \in 1..Len(variants) - 1 : variants[i].bitrate >= variants[i + 1].bitrate

\* every listing of distinct rungs whose bandwidths do not increase
SortedListings ==
  UNION { { variants \in RowsOver(names, FALSE) : NonIncreasing(variants) } :
            names \in SUBSET QualityNames }

\* C13: the text generateHLSManifest returns is the header followed by the
\* stream entries of the rows of the video in non-increasing bandwidth
\* order, whatever the order the rows were inserted in.
C13_ManifestOrderedByBandwidth ==
  (response.op = "generateHLSManifest" /\ response.ok) =>
    \E variants \in SortedListings :
      /\ { variants[i].quality : i \in 1..Len(variants) } = RowQualities
      /\ response.body = "#EXTM3U\n#EXT-X-VERSION:3\n\n" \o ManifestBody(variants)

\* a manifest was returned for rows stored in increasing bandwidth order
C13_Witness ==
  /\ response.op = "generateHLSManifest" /\ response.ok
  /\ Len(video_variants) >= 2
  /\ \A i \in 1..Len(video_variants) - 1 :
       video_variants[i].bitrate < video_variants[i + 1].bitrate

\* C14: when the submission of the cloud job fails, the step persists no
\* processing_job_id and sets the status failed; a video that had no other
\* run holds no job id afterwards.
C14_FailedSubmitPersistsNoJob ==
  [][\A r \in Runs :
       (pc[r] = "submit" /\ pc'[r] = "threw") =>
         /\ processing_job_id' = processing_job_id
         /\ jobs'[r] = "none"
         /\ status' = "failed"
         /\ (\A o \in Runs \ {r} : pc[o] = "idle") => processing_job_id' = NoJob]_vars

\* the only run of the video threw because the job could not be created
C14_Witness ==
  \E r \in Runs :
    /\ cloud /\ pc[r] = "threw" /\ \A o \in Runs \ {r} : pc[o] = "idle"
    /\ cacheProcessing.present
    /\ cacheProcessing.value.error = "Failed to create transcoding job"
    /\ status = "failed"
    /\ processing_job_id = NoJob

\* C15: a step of processVideo that ends the run with an exception leaves
\* the status failed and a cached status entry whose status is failed and
\* which carries the error message; the run has thrown to its caller.
C15_ExceptionMarksFailedAndCachesError ==
  [][\A r \in Runs :
       (pc[r] # "threw" /\ pc'[r] = "threw") =>
         /\ status' = "failed"
         /\ cacheProcessing'.present
         /\ cacheProcessing'.value.status = "failed"
         /\ cacheProcessing'.value.error # "none"]_vars

\* a local run threw after its rungs were transcoded
C15_Witness ==
  \E r \in Runs :
    /\ ~cloud /\ pc[r] = "threw" /\ rung[r] = Len(qualities) + 1
    /\ status = "failed"
    /\ cacheProcessing.present
    /\ cacheProcessing.value.status = "failed"
    /\ cacheProcessing.value.error = "publishing failed"

\* the call of checkAWSJobStatus that got the status of the job
PollObserves(jobStatuses) ==
  /\ CheckAWSJobStatus
  /\ processing_job_id # NoJob
  /\ jobs[processing_job_id] \in jobStatuses
  /\ response'.body = jobs[processing_job_id]

\* C16: a call of checkAWSJobStatus that observes the job complete leaves
\* exactly one row per output of the job, the status ready and no cached
\* status entry; one that observes the job in error leaves the status
\* failed.
C16_TerminalPollEffects ==
  [][/\ PollObserves({"COMPLETE"}) =>
          /\ RowQualities' = QualityNames
          /\ Len(video_variants') = Len(qualities)
          /\ status' = "ready"
          /\ ~cacheProcessing'.present
     /\ PollObserves({"ERROR"}) => status' = "failed"]_vars

\* C17: a call of checkAWSJobStatus that observes the job submitted or
\* progressing changes nothing but the cached status entry.
C17_NonTerminalPollOnlyCaches ==
  [][PollObserves({"SUBMITTED", "PROGRESSING"}) =>
       UNCHANGED <<status, processing_job_id, video_variants, cacheManifest,
                   cachePlaylist>>]_vars

\* the job was polled while progressing and the progress was cached
C17_Witness ==
  /\ response.op = "checkAWSJobStatus" /\ response.ok
  /\ response.body = "PROGRESSING"
  /\ cacheProcessing.present
  /\ cacheProcessing.value.status = "PROGRESSING"
  /\ status = "processing"

\* C18: the table never holds two rows of the same quality.
C18_OneRowPerQuality ==
  \A i, k \in 1..Len(video_variants) :
    video_variants[i].quality = video_variants[k].quality => i = k

\* two runs have both encoded the same rung
C18_Witness ==
  \E r, o \in Runs :
    /\ r # o
    /\ encoded[r] \cap encoded[o] # {}
    /\ Len(video_variants) >= 1

\* C19: the step that starts a run sets the status processing and caches
\* the first status with progress 10 before any work of a method; the run
\* then takes the cloud method when the credentials are configured and the
\* FFmpeg method otherwise, never both.
C19_StartThenOneStrategy ==
  [][\A r \in Runs :
       /\ (pc[r] = "idle" /\ pc'[r] # "idle") =>
            /\ pc'[r] = "probe"
            /\ status' = "processing"
            /\ cacheProcessing' =
                 cacheProcessingStatus(StatusValue("processing", 10, NoJob, "none"))
            /\ encoded'[r] = {} /\ jobs'[r] = "none" /\ rung'[r] = 1
       /\ pc'[r] \in {"submit", "cloudThumbnail"} => cloud
       /\ pc'[r] = "transcode" => ~cloud
       /\ jobs'[r] # "none" => (cloud /\ encoded'[r] = {} /\ rung'[r] = 1)
       /\ rung'[r] > 1 => (~cloud /\ jobs'[r] = "none")]_vars

\* a run took the cloud method after the first status was cached
C19_Witness ==
  \E r \in Runs :
    /\ cloud /\ pc[r] = "submit"
    /\ status = "processing"
    /\ cacheProcessing.present
    /\ cacheProcessing.value.progress = 10

\* C20: generateHLSManifest returns a manifest only for a video that is
\* ready and has a row, and the manifest it returns lists every row of the
\* video.
C20_ManifestFailsClosed ==
  [][(GenerateHLSManifest /\ response'.ok) =>
       /\ status = "ready"
       /\ video_variants # <<>>
       /\ response'.body = MasterManifest(video_variants)]_vars

\* C21: a manifest read that hits the cache returns the cached text and
\* leaves the entry alone; one that misses builds the text from the rows
\* and stores it, for 900 s for the master manifest and for 60 s for the
\* playlist of a quality.
C21_ReadThroughWithStatedTTL ==
  [][/\ GenerateHLSManifest =>
          IF cacheManifest.present
            THEN /\ response'.body = cacheManifest.value
                 /\ cacheManifest' = cacheManifest
            ELSE video_variants # <<>> =>
                   /\ response'.body = MasterManifest(video_variants)
                   /\ cacheManifest' =
                        Entry(MasterManifest(video_variants), 900)
     /\ \A q \in RouteQualities :
          GenerateQualityPlaylist(q) =>
            IF q \in cachePlaylist
              THEN cachePlaylist' = cachePlaylist
              ELSE HasQuality(video_variants, q) =>
                     (q \in cachePlaylist' /\ PlaylistTTL = 60)]_vars

\* C22: generateQualityPlaylist answers a playlist exactly when the table
\* holds a row of the quality asked for, and fails otherwise.
C22_PlaylistOnlyForExistingQuality ==
  [][\A q \in RouteQualities :
       GenerateQualityPlaylist(q) =>
         /\ response'.ok <=> HasQuality(video_variants, q)
         /\ ~response'.ok => UNCHANGED cachePlaylist]_vars

\* a playlist was refused for a video that has rows of other qualities
C22_Witness ==
  /\ response.op = "generateQualityPlaylist"
  /\ ~response.ok
  /\ video_variants # <<>>

\* C23: the manifest text either generator returns is the header, then per
\* row, in the order of getVideoVariants, the stream-info line with
\* bitrate * 1000 and WIDTHxHEIGHT, the relative reference
\* <quality>/playlist.m3u8 and a blank line; both generators give the same
\* text for the same rows.
C23_ManifestTextSameForm ==
  (response.op \in {"generateHLSManifest", "getHLSManifest"} /\ response.ok) =>
    /\ response.body = MasterManifest(video_variants)
    /\ generateM3U8Content(generateHLSManifest(video_variants))
         = MasterManifest(video_variants)

\* C24: with no account id configured, the submission step of a cloud run
\* ends in an error and creates no job; no job of such a configuration
\* exists to fail later.
C24_MissingAccountRaisesAtSubmit ==
  [][\A r \in Runs :
       (awsAccountId = NoAccount /\ pc[r] = "submit" /\ pc'[r] # "submit") =>
         (pc'[r] = "threw" /\ jobs'[r] = "none")]_vars

\* the runs of the video that are between their start and their end
ActiveRuns == { r \in Runs : pc[r] \notin Finished \cup {"idle"} }

\* C27: a run starts only for a video whose status is uploading, and at
\* most one run of the video is active at any time.
C27_SingleActiveRun ==
  [][/\ \A r \in Runs :
          (pc[r] = "idle" /\ pc'[r] # "idle") => status = "uploading"
     /\ Cardinality(ActiveRuns') <= 1]_vars

\* the errors checkAWSJobStatus raises before it has written anything
PollFailures ==
  {"No processing job found for this video", "Failed to get job status"}

\* C29: a call of checkAWSJobStatus that fails because the video has no job
\* id or because the status query fails answers with the error after that
\* single query and leaves the row, the table and every cache entry as
\* they were.
C29_FailedPollChangesNothing ==
  [][(CheckAWSJobStatus /\ response'.body \in PollFailures) =>
       /\ ~response'.ok
       /\ UNCHANGED <<dbVars, cacheVars, jobs>>]_vars

\* the status query failed for a video that is processing with a cached
\* status
C29_Witness ==
  /\ response.op = "checkAWSJobStatus"
  /\ response.body = "Failed to get job status"
  /\ processing_job_id # NoJob
  /\ status = "processing"
  /\ cacheProcessing.present

\* the status object carries a text for the client: a message, or the
\* error text of a failure
HasMessage(body) ==
  \/ "message" \in DOMAIN body
  \/ body.error # "none"

\* C25: every answer of getProcessingStatus, cached or computed, carries a
\* human-readable text next to the status code.
C25_StatusResponseHasMessage ==
  response.op = "getProcessingStatus" => HasMessage(response.body)

\* C28: when the read-through of getProcessingStatus writes its entry after
\* the run of the video has completed, the cached status is the status of
\* the row.
C28_ReadThroughCoherentAfterRun ==
  [][(/\ reader.pc = "cache"
      /\ reader'.pc = "idle"
      /\ \E r \in Runs : pc[r] \in Finished
      /\ \A r \in Runs : pc[r] \in Finished \cup {"idle"})
       => (cacheProcessing'.present =>
             cacheProcessing'.value.status = status')]_vars

RECURSIVE CompletedOutputs(_)
CompletedOutputs(outputs) ==
  IF outputs = <<>> THEN 0
  ELSE (IF Head(outputs).OutputFilePaths # <<>> THEN 1 ELSE 0)
         + CompletedOutputs(Tail(outputs))

\* C30: the progress reported for a job is round(100 * completed outputs /
\* declared outputs), 0 when no output is declared, and lies in 0..100.
C30_ProgressFromCompletedOutputs ==
  response.op = "calculateJobProgress" =>
    LET declared == Len(response.outputs)
        completed == CompletedOutputs(response.outputs)
    IN  /\ response.body =
             IF declared = 0 THEN 0
             ELSE (2 * 100 * completed + declared) \div (2 * declared)
        /\ response.body \in 0..100

====
